---- MODULE Spec2Model ----
(***************************************************************************)
(* Seat allocation and cancellation of the ticketing platform              *)
(* (src/server.py): the handlers initialize_event, book_ticket and         *)
(* cancel_ticket, each run in its own database transaction, against a      *)
(* PostgreSQL store at its default isolation level (READ COMMITTED):       *)
(* every statement reads the rows committed at the instant it runs, a      *)
(* row written or selected FOR UPDATE stays locked by its transaction      *)
(* until commit or rollback, a statement that needs a row locked by        *)
(* another transaction waits (unless it says SKIP LOCKED), and the ORM     *)
(* session sends pending attribute changes (flush) before each later       *)
(* statement and at commit.                                                *)
(***************************************************************************)
EXTENDS Integers, Sequences, FiniteSets, TLC

(* ---- bounds of the model ---- *)
\* Event.total_tickets of every event (the source's default is 100,
\* src/server.py:28; the model scales the seat range down).
TotalTickets == 3
\* how many events initialize_event may create
MaxEvents == 2
\* how many of them while requests run concurrently
ConcEvents == 1
\* how many booking identifiers (uuid4 values) may be generated
MaxBookings == 3

(* ---- program constants ---- *)
\* the per-user limit of book_ticket: "current_user_tickets + tickets > 2"
Quota == 2
\* TicketBooking.tickets: Field(gt=0, le=2)
MaxTickets == 2

Procs == {"p1", "p2"}
Users == {"alice", "bob", "carol"}
\* the users of the requests that run concurrently
ConcUsers == {"alice", "bob"}
EventIds == 1..MaxEvents
Seats == 1..TotalTickets
BookingIds == 1..MaxBookings
Counts == 1..MaxTickets

\* a NULL seat_id1 / seat_id2 column
Null == 0
\* "no Booking row loaded" in a cancel_ticket session
NoBooking == [id |-> 0, event |-> 0, user |-> "", s1 |-> 0, s2 |-> 0]

VARIABLES
  nEvents,   \* events table: the events 1..nEvents exist (committed)
  booked,    \* seats table: booked[e] = seat numbers of e with is_booked = TRUE (committed)
  bookings,  \* bookings table: set of committed Booking rows
  nextId,    \* number of booking identifiers generated so far
  pc,        \* position of each request handler
  kind,      \* "book" | "cancel" | "none": the handler a process is running
  ev,        \* booking.event_id of a book request
  usr,       \* booking.user_id of a book request
  cnt,       \* booking.tickets of a book request
  bid,       \* cancel.booking_id of a cancel request
  pending,   \* Booking rows of the FOR UPDATE statement's snapshot not yet locked (ids)
  urows,     \* user_bookings: Booking rows the FOR UPDATE statement returned
  held,      \* current_user_tickets
  sel,       \* available_seats: the selected seat numbers, in ORDER BY order
  cbook,     \* the Booking row cancel_ticket loaded
  dirty,     \* Seat objects of the session with an unflushed change of is_booked
  sLock,     \* seat rows locked by each transaction: pairs <<event, seat>>
  bLock,     \* Booking rows locked by each transaction (ids)
  wSeat,     \* seat rows UPDATEd by the transaction, not yet committed: <<event, seat>>
  wIns,      \* Booking rows INSERTed by the transaction, not yet committed
  wDel,      \* Booking rows DELETEd by the transaction, not yet committed (ids)
  result     \* outcome of the request: "none", "ok" or the failure kind

db == <<nEvents, booked, bookings, nextId>>
args == <<kind, ev, usr, cnt, bid>>
locals == <<pending, urows, held, sel, cbook, dirty>>
txn == <<sLock, bLock, wSeat, wIns, wDel>>
vars == <<nEvents, booked, bookings, nextId, pc, kind, ev, usr, cnt, bid,
          pending, urows, held, sel, cbook, dirty, sLock, bLock, wSeat, wIns,
          wDel, result>>

(* ---- helpers ---- *)
Min(S) == CHOOSE x \in S : \A y \in S : x <= y

RECURSIVE SortedSeq(_)
\* ORDER BY on a set of integers: the ascending sequence of its elements
SortedSeq(S) == IF S = {} THEN <<>> ELSE <<Min(S)>> \o SortedSeq(S \ {Min(S)})

\* faulty variant of Limit: the statement without its LIMIT
NoLimit(q, n) == q

\* LIMIT n on a sequence
Limit(q, n) == IF Len(q) <= n THEN q ELSE SubSeq(q, 1, n)

Range(q) == {q[i] : i \in 1..Len(q)}

\* rows locked by a transaction other than p's
SeatLockedByOther(p, e, s) == \E q \in Procs \ {p} : <<e, s>> \in sLock[q]
BookingLockedByOther(p, b) == \E q \in Procs \ {p} : b \in bLock[q]

\* faulty variant of BookingById: the lookup without its booking_id condition
BookingByIdAny(b) == bookings

\* SELECT ... FROM bookings WHERE booking_id = b
BookingById(b) == {r \in bookings : r.id = b}

Init ==
  /\ nEvents = 0
  /\ booked = [e \in EventIds |-> {}]
  /\ bookings = {}
  /\ nextId = 0
  /\ pc = [p \in Procs |-> "idle"]
  /\ kind = [p \in Procs |-> "none"]
  /\ ev = [p \in Procs |-> 0]
  /\ usr = [p \in Procs |-> ""]
  /\ cnt = [p \in Procs |-> 0]
  /\ bid = [p \in Procs |-> 0]
  /\ pending = [p \in Procs |-> {}]
  /\ urows = [p \in Procs |-> {}]
  /\ held = [p \in Procs |-> 0]
  /\ sel = [p \in Procs |-> <<>>]
  /\ cbook = [p \in Procs |-> NoBooking]
  /\ dirty = [p \in Procs |-> {}]
  /\ sLock = [p \in Procs |-> {}]
  /\ bLock = [p \in Procs |-> {}]
  /\ wSeat = [p \in Procs |-> {}]
  /\ wIns = [p \in Procs |-> {}]
  /\ wDel = [p \in Procs |-> {}]
  /\ result = [p \in Procs |-> "none"]

(* ---- initialize_event ---- *)
\* faulty variant of InitializeEvent: the new event's first seat starts booked
InitializeEventBooked ==
  /\ nEvents < MaxEvents
  /\ nEvents' = nEvents + 1
  /\ booked' = [booked EXCEPT ![nEvents + 1] = {1}]
  /\ UNCHANGED <<bookings, nextId, pc, args, locals, txn, result>>

\* INSERT of the Event and of its seats 1..total_tickets, all unbooked, and
\* COMMIT: nothing of it is visible before the commit, so it is one step.
InitializeEvent ==
  /\ nEvents < MaxEvents
  /\ nEvents' = nEvents + 1
  /\ booked' = [booked EXCEPT ![nEvents + 1] = {}]
  /\ UNCHANGED <<bookings, nextId, pc, args, locals, txn, result>>

(* ---- transaction end ---- *)
\* the handler's local state, dropped with the request's session
ResetLocals(p) ==
  /\ kind' = [kind EXCEPT ![p] = "none"]
  /\ ev' = [ev EXCEPT ![p] = 0]
  /\ usr' = [usr EXCEPT ![p] = ""]
  /\ cnt' = [cnt EXCEPT ![p] = 0]
  /\ bid' = [bid EXCEPT ![p] = 0]
  /\ pending' = [pending EXCEPT ![p] = {}]
  /\ urows' = [urows EXCEPT ![p] = {}]
  /\ held' = [held EXCEPT ![p] = 0]
  /\ sel' = [sel EXCEPT ![p] = <<>>]
  /\ cbook' = [cbook EXCEPT ![p] = NoBooking]
  /\ dirty' = [dirty EXCEPT ![p] = {}]
  /\ result' = [result EXCEPT ![p] = "none"]

\* faulty variant of EndTransaction: the row locks outlive the transaction
EndTransactionKeepsLocks(p) ==
  /\ wSeat' = [wSeat EXCEPT ![p] = {}]
  /\ wIns' = [wIns EXCEPT ![p] = {}]
  /\ wDel' = [wDel EXCEPT ![p] = {}]
  /\ UNCHANGED <<sLock, bLock>>

\* end of p's transaction, by COMMIT or ROLLBACK: its row locks are released
\* and its uncommitted writes are no longer pending
EndTransaction(p) ==
  /\ sLock' = [sLock EXCEPT ![p] = {}]
  /\ bLock' = [bLock EXCEPT ![p] = {}]
  /\ wSeat' = [wSeat EXCEPT ![p] = {}]
  /\ wIns' = [wIns EXCEPT ![p] = {}]
  /\ wDel' = [wDel EXCEPT ![p] = {}]

\* faulty variant of Close: the session is dropped without rollback, its row locks stay
CloseWithoutRollback(p) ==
  /\ pc[p] \in {"failed", "done"}
  /\ pc' = [pc EXCEPT ![p] = "idle"]
  /\ ResetLocals(p)
  /\ UNCHANGED <<db, txn>>

\* get_db: "finally: await session.close()" after the handler returned or
\* raised: whatever the transaction did not commit is rolled back
Close(p) ==
  /\ pc[p] \in {"failed", "done"}
  /\ pc' = [pc EXCEPT ![p] = "idle"]
  /\ EndTransaction(p)
  /\ ResetLocals(p)
  /\ UNCHANGED db

InFlight == {"b_quota", "b_lock", "b_seats", "b_flush", "b_commit",
             "c_seat1", "c_flush1", "c_seat2", "c_flush2", "c_delete", "c_commit"}

\* faulty variant of Abort: the seat UPDATEs the transaction had flushed
\* stay in the table although the transaction never committed
AbortKeepsSeatWrites(p) ==
  /\ pc[p] \in InFlight
  /\ pc' = [pc EXCEPT ![p] = "idle"]
  /\ booked' = [e \in EventIds |->
                  LET w == {s \in Seats : <<e, s>> \in wSeat[p]}
                  IN IF kind[p] = "book" THEN booked[e] \cup w ELSE booked[e] \ w]
  /\ EndTransaction(p)
  /\ ResetLocals(p)
  /\ UNCHANGED <<nEvents, bookings, nextId>>

\* the request is cancelled or its connection lost while the handler awaits
\* a statement: the session is closed without commit
Abort(p) ==
  /\ pc[p] \in InFlight
  /\ pc' = [pc EXCEPT ![p] = "idle"]
  /\ EndTransaction(p)
  /\ ResetLocals(p)
  /\ UNCHANGED db

(* ---- book_ticket ---- *)
\* book requests that will still INSERT a Booking (and draw an identifier):
\* a request starts only if an identifier is left for it, so that the bound
\* on identifiers never stops a request half way
WillInsert == {q \in Procs : pc[q] \in {"b_quota", "b_lock", "b_seats", "b_flush"}}

\* POST /tickets/book, up to the Event lookup (an event_id that is no UUID
\* is refused before the session is used, and is not modelled)
BookStart(p, e, u, n) ==
  /\ pc[p] = "idle"
  /\ nextId + Cardinality(WillInsert) < MaxBookings
  /\ kind' = [kind EXCEPT ![p] = "book"]
  /\ ev' = [ev EXCEPT ![p] = e]
  /\ usr' = [usr EXCEPT ![p] = u]
  /\ cnt' = [cnt EXCEPT ![p] = n]
  /\ IF e \in 1..nEvents
       THEN /\ pc' = [pc EXCEPT ![p] = "b_quota"]
            /\ UNCHANGED result
       ELSE /\ pc' = [pc EXCEPT ![p] = "failed"]
            /\ result' = [result EXCEPT ![p] = "NotFound"]
  /\ UNCHANGED <<db, bid, locals, txn>>

RECURSIVE Count1(_)
\* sum(1 for b in user_bookings if b.seat_id1)
Count1(rows) ==
  IF rows = {} THEN 0
  ELSE LET r == CHOOSE x \in rows : TRUE
       IN (IF r.s1 # Null THEN 1 ELSE 0) + Count1(rows \ {r})

RECURSIVE Count2(_)
\* sum(1 for b in user_bookings if b.seat_id2)
Count2(rows) ==
  IF rows = {} THEN 0
  ELSE LET r == CHOOSE x \in rows : TRUE
       IN (IF r.s2 # Null THEN 1 ELSE 0) + Count2(rows \ {r})

\* current_user_tickets
CurrentUserTickets(rows) == Count1(rows) + Count2(rows)

RECURSIVE FreePrefix(_, _)
\* how many leading rows of q the statement can pass without waiting
FreePrefix(p, q) ==
  IF q = <<>> \/ BookingLockedByOther(p, Head(q)) THEN 0
  ELSE 1 + FreePrefix(p, Tail(q))

\* faulty variant of QuotaExceeded: the quota check never rejects
QuotaNeverExceeded(h, n) == FALSE

\* The quota check on the rows the FOR UPDATE statement returned.
QuotaExceeded(h, n) == h + n > Quota

\* SELECT ... FROM bookings WHERE event_id AND user_id FOR UPDATE, on the rows
\* ids of its snapshot that it has not passed yet (rows committed after the
\* snapshot are not seen): in scan order, here by identifier, it locks each
\* row still there (a row a committed transaction deleted is dropped), up to
\* the first row another transaction has locked, where it waits. Once all
\* rows are passed the handler sums the seats and decides.
QuotaProgress(p, ids) ==
  LET q == SortedSeq(ids)
      k == FreePrefix(p, q)
      passed == {q[i] : i \in 1..k}
      got == {r \in bookings : r.id \in passed}
      rows == urows[p] \cup got
      rest == ids \ passed
      h == CurrentUserTickets(rows)
  IN /\ bLock' = [bLock EXCEPT ![p] = @ \cup {r.id : r \in got}]
     /\ urows' = [urows EXCEPT ![p] = rows]
     /\ pending' = [pending EXCEPT ![p] = rest]
     /\ IF rest # {}
          THEN /\ pc' = [pc EXCEPT ![p] = "b_lock"]
               /\ UNCHANGED <<held, result>>
          ELSE /\ held' = [held EXCEPT ![p] = h]
               /\ IF QuotaExceeded(h, cnt[p])
                    THEN /\ pc' = [pc EXCEPT ![p] = "failed"]
                         /\ result' = [result EXCEPT ![p] = "QuotaExceeded"]
                    ELSE /\ pc' = [pc EXCEPT ![p] = "b_seats"]
                         /\ UNCHANGED result
     /\ UNCHANGED <<db, args, sel, cbook, dirty, sLock, wSeat, wIns, wDel>>

\* faulty variant of UserBookingIds: the statement without its user_id condition
UserBookingIdsAnyUser(e, u) == {r.id : r \in {x \in bookings : x.event = e}}

\* faulty variant of UserBookingIds: the statement without its event_id condition
UserBookingIdsAnyEvent(e, u) == {r.id : r \in {x \in bookings : x.user = u}}

\* the Booking rows of (event, user) committed now: the statement's snapshot
UserBookingIds(e, u) == {r.id : r \in {x \in bookings : x.event = e /\ x.user = u}}

\* the FOR UPDATE statement starts: it takes its snapshot and locks what it can
BookQuotaScan(p) ==
  /\ pc[p] = "b_quota"
  /\ QuotaProgress(p, UserBookingIds(ev[p], usr[p]))

\* the FOR UPDATE statement resumes after the lock it waited for is released
BookQuotaLock(p) ==
  /\ pc[p] = "b_lock"
  /\ ~BookingLockedByOther(p, Min(pending[p]))
  /\ QuotaProgress(p, pending[p])

\* faulty variant of SelectableSeats: a selection that ignores the row locks
SelectableSeatsNoLock(p, e) == {s \in Seats : s \notin booked[e]}

\* WHERE event_id = e AND is_booked = False ... FOR UPDATE SKIP LOCKED: the
\* unbooked seats of e that no other transaction has locked
SelectableSeats(p, e) ==
  {s \in Seats : s \notin booked[e] /\ ~SeatLockedByOther(p, e, s)}

RECURSIVE DescendingSeq(_)
DescendingSeq(S) ==
  IF S = {} THEN <<>>
  ELSE LET m == CHOOSE x \in S : \A y \in S : x >= y
       IN <<m>> \o DescendingSeq(S \ {m})

\* faulty variant of AvailableSeats: the selection in descending seat order
AvailableSeatsDescending(p, e, n) == Limit(DescendingSeq(SelectableSeats(p, e)), n)

\* ORDER BY seat_id LIMIT tickets
AvailableSeats(p, e, n) == Limit(SortedSeq(SelectableSeats(p, e)), n)

\* faulty variant of NotEnough: the comparison off by one
NotEnoughOrEqual(chosen, n) == Len(chosen) <= n

\* "if len(available_seats) < booking.tickets"
NotEnough(chosen, n) == Len(chosen) < n

\* the seat selection and the "Not enough tickets available" check
BookSelectSeats(p) ==
  /\ pc[p] = "b_seats"
  /\ LET chosen == AvailableSeats(p, ev[p], cnt[p])
     IN /\ sel' = [sel EXCEPT ![p] = chosen]
        /\ sLock' = [sLock EXCEPT ![p] = @ \cup {<<ev[p], s>> : s \in Range(chosen)}]
        /\ IF NotEnough(chosen, cnt[p])
             THEN /\ pc' = [pc EXCEPT ![p] = "failed"]
                  /\ result' = [result EXCEPT ![p] = "InsufficientCapacity"]
             ELSE /\ pc' = [pc EXCEPT ![p] = "b_flush"]
                  /\ UNCHANGED result
  /\ UNCHANGED <<db, args, pending, urows, held, cbook, dirty, bLock, wSeat, wIns, wDel>>

\* Booking(event_id, user_id, seat_id1, seat_id2) of the handler
NewBooking(p, id) ==
  [id |-> id, event |-> ev[p], user |-> usr[p],
   s1 |-> IF Len(sel[p]) > 0 THEN sel[p][1] ELSE Null,
   s2 |-> IF Len(sel[p]) > 1 THEN sel[p][2] ELSE Null]

\* seat.is_booked = True for the selected seats, db.add(new_booking), and the
\* flush of db.commit(): the UPDATEs and the INSERT, not yet committed
BookFlush(p) ==
  /\ pc[p] = "b_flush"
  /\ nextId' = nextId + 1
  /\ wSeat' = [wSeat EXCEPT ![p] = {<<ev[p], s>> : s \in Range(sel[p])}]
  /\ wIns' = [wIns EXCEPT ![p] = {NewBooking(p, nextId + 1)}]
  /\ pc' = [pc EXCEPT ![p] = "b_commit"]
  /\ UNCHANGED <<nEvents, booked, bookings, args, locals, sLock, bLock, wDel, result>>

\* faulty variant of CommittedSeats: the seat releases of a cancel are lost
CommittedSeatsNoRelease(p) ==
  [e \in EventIds |->
     LET w == {s \in Seats : <<e, s>> \in wSeat[p]}
     IN IF kind[p] = "book" THEN booked[e] \cup w ELSE booked[e]]

\* the seats table after p's seat UPDATEs are committed: a book transaction
\* wrote is_booked = TRUE, a cancel transaction is_booked = FALSE
CommittedSeats(p) ==
  [e \in EventIds |->
     LET w == {s \in Seats : <<e, s>> \in wSeat[p]}
     IN IF kind[p] = "book" THEN booked[e] \cup w ELSE booked[e] \ w]

\* faulty variant of CommittedBookings: the DELETE of a cancel is lost
CommittedBookingsNoDelete(p) == bookings \cup wIns[p]

\* the bookings table after p's INSERT and DELETE are committed
CommittedBookings(p) == {r \in bookings : r.id \notin wDel[p]} \cup wIns[p]

\* COMMIT of db.commit(), and the response (the db.refresh(new_booking) in
\* between reads the committed row again and changes nothing)
Commit(p) ==
  /\ pc[p] \in {"b_commit", "c_commit"}
  /\ booked' = CommittedSeats(p)
  /\ bookings' = CommittedBookings(p)
  /\ EndTransaction(p)
  /\ pc' = [pc EXCEPT ![p] = "done"]
  /\ result' = [result EXCEPT ![p] = "ok"]
  /\ UNCHANGED <<nEvents, nextId, args, locals>>

(* ---- cancel_ticket ---- *)
\* the statement that follows a Seat lookup: the session first flushes the
\* seat if the assignment changed it
AfterSeat(p, s, isLast) ==
  IF s \in dirty'[p]
    THEN IF isLast THEN "c_flush2" ELSE "c_flush1"
    ELSE IF isLast THEN "c_delete" ELSE "c_seat2"

\* POST /tickets/cancel, up to the Booking lookup (a plain SELECT: no lock)
CancelStart(p, b) ==
  /\ pc[p] = "idle"
  /\ kind' = [kind EXCEPT ![p] = "cancel"]
  /\ bid' = [bid EXCEPT ![p] = b]
  /\ IF BookingById(b) = {}
       THEN /\ pc' = [pc EXCEPT ![p] = "failed"]
            /\ result' = [result EXCEPT ![p] = "NotFound"]
            /\ UNCHANGED cbook
       ELSE LET r == CHOOSE x \in BookingById(b) : TRUE
            IN /\ cbook' = [cbook EXCEPT ![p] = r]
               /\ pc' = [pc EXCEPT ![p] =
                           IF r.s1 # Null THEN "c_seat1"
                           ELSE IF r.s2 # Null THEN "c_seat2" ELSE "c_delete"]
               /\ UNCHANGED result
  /\ UNCHANGED <<db, ev, usr, cnt, pending, urows, held, sel, dirty, txn>>

\* "if booking.seat_id1:" SELECT the Seat, seat1.is_booked = False. The
\* assignment is a pending change only if the loaded value was TRUE.
CancelReadSeat1(p) ==
  /\ pc[p] = "c_seat1"
  /\ LET e == cbook[p].event
         s == cbook[p].s1
     IN /\ dirty' = [dirty EXCEPT ![p] = IF s \in booked[e] THEN {s} ELSE {}]
        /\ pc' = [pc EXCEPT ![p] = AfterSeat(p, s, cbook[p].s2 = Null)]
  /\ UNCHANGED <<db, args, pending, urows, held, sel, cbook, txn, result>>

\* "if booking.seat_id2:" SELECT the Seat, seat2.is_booked = False
CancelReadSeat2(p) ==
  /\ pc[p] = "c_seat2"
  /\ LET e == cbook[p].event
         s == cbook[p].s2
     IN /\ dirty' = [dirty EXCEPT ![p] = IF s \in booked[e] THEN {s} ELSE {}]
        /\ pc' = [pc EXCEPT ![p] = AfterSeat(p, s, TRUE)]
  /\ UNCHANGED <<db, args, pending, urows, held, sel, cbook, txn, result>>

\* the flush before the next statement: UPDATE seats SET is_booked = false
\* WHERE seat_id AND event_id, which waits while another transaction holds
\* the row's lock and then writes whatever the row's value has become
CancelFlush(p) ==
  /\ pc[p] \in {"c_flush1", "c_flush2"}
  /\ \A s \in dirty[p] : ~SeatLockedByOther(p, cbook[p].event, s)
  /\ sLock' = [sLock EXCEPT ![p] = @ \cup {<<cbook[p].event, s>> : s \in dirty[p]}]
  /\ wSeat' = [wSeat EXCEPT ![p] = @ \cup {<<cbook[p].event, s>> : s \in dirty[p]}]
  /\ dirty' = [dirty EXCEPT ![p] = {}]
  /\ pc' = [pc EXCEPT ![p] = IF pc[p] = "c_flush1" THEN "c_seat2" ELSE "c_delete"]
  /\ UNCHANGED <<db, args, pending, urows, held, sel, cbook, bLock, wIns, wDel, result>>

\* DELETE FROM bookings WHERE booking_id: it waits while another transaction
\* holds the row's lock, and deletes nothing if the row is gone by then
CancelDelete(p) ==
  /\ pc[p] = "c_delete"
  /\ ~BookingLockedByOther(p, bid[p])
  /\ LET found == {r.id : r \in BookingById(bid[p])}
     IN /\ bLock' = [bLock EXCEPT ![p] = @ \cup found]
        /\ wDel' = [wDel EXCEPT ![p] = @ \cup found]
  /\ pc' = [pc EXCEPT ![p] = "c_commit"]
  /\ UNCHANGED <<db, args, locals, sLock, wSeat, wIns, result>>

(* ---- specifications ---- *)
\* the statements of a book request after its start
BookRun(p) ==
  \/ BookQuotaScan(p)
  \/ BookQuotaLock(p)
  \/ BookSelectSeats(p)
  \/ BookFlush(p)

\* the statements of a cancel request after its start
CancelRun(p) ==
  \/ CancelReadSeat1(p)
  \/ CancelReadSeat2(p)
  \/ CancelFlush(p)
  \/ CancelDelete(p)

\* any number of requests in flight at once, of the users ConcUsers,
\* against ConcEvents events
Next ==
  \/ nEvents < ConcEvents /\ InitializeEvent
  \/ \E p \in Procs, e \in EventIds, u \in ConcUsers, n \in Counts : BookStart(p, e, u, n)
  \/ \E p \in Procs, b \in BookingIds : CancelStart(p, b)
  \/ \E p \in Procs : BookRun(p)
  \/ \E p \in Procs : CancelRun(p)
  \/ \E p \in Procs : Commit(p)
  \/ \E p \in Procs : Close(p)
  \/ \E p \in Procs : Abort(p)

Spec == Init /\ [][Next]_vars

\* the handler of p's request runs on: each await returns once the statement
\* it waits for can run, and the session is closed when the handler is left
Run(p) == BookRun(p) \/ CancelRun(p) \/ Commit(p) \/ Close(p)

\* concurrent requests on the Bookings of one user: the book requests are
\* those that can wait for each other (the FOR UPDATE statement is per user)
NextLive ==
  \/ nEvents < ConcEvents /\ InitializeEvent
  \/ \E p \in Procs, e \in EventIds, n \in Counts : BookStart(p, e, "alice", n)
  \/ \E p \in Procs, b \in BookingIds : CancelStart(p, b)
  \/ \E p \in Procs : BookRun(p)
  \/ \E p \in Procs : CancelRun(p)
  \/ \E p \in Procs : Commit(p)
  \/ \E p \in Procs : Close(p)
  \/ \E p \in Procs : Abort(p)

\* every request's handler is scheduled fairly by the event loop (requests
\* still start, and are aborted, at any time or never)
SpecLive == Init /\ [][NextLive]_vars /\ \A p \in Procs : WF_vars(Run(p))

\* concurrent book requests only (no cancellation)
NextBook ==
  \/ nEvents < ConcEvents /\ InitializeEvent
  \/ \E p \in Procs, e \in EventIds, u \in ConcUsers, n \in Counts : BookStart(p, e, u, n)
  \/ \E p \in Procs : BookRun(p)
  \/ \E p \in Procs : Commit(p)
  \/ \E p \in Procs : Close(p)
  \/ \E p \in Procs : Abort(p)

SpecBook == Init /\ [][NextBook]_vars

\* no other request is in flight
Quiet(p) == \A q \in Procs \ {p} : pc[q] = "idle"

\* sequential execution: a request starts when no other is in flight, so
\* no statement ever finds a row locked (BookQuotaLock, the resumption after
\* a lock wait, has no part in it)
NextSeq ==
  \/ InitializeEvent
  \/ \E p \in Procs, e \in EventIds, u \in Users, n \in Counts :
       Quiet(p) /\ BookStart(p, e, u, n)
  \/ \E p \in Procs, b \in BookingIds : Quiet(p) /\ CancelStart(p, b)
  \/ \E p \in Procs : BookQuotaScan(p) \/ BookSelectSeats(p) \/ BookFlush(p)
  \/ \E p \in Procs : CancelRun(p)
  \/ \E p \in Procs : Commit(p)
  \/ \E p \in Procs : Close(p)
  \/ \E p \in Procs : Abort(p)

SpecSeq == Init /\ [][NextSeq]_vars

(* ---- committed state, as the claims read it ---- *)
\* the populated seat slots of a Booking row: pairs <<slot, seat>>
SlotsOf(r) == {<<i, s>> \in {<<1, r.s1>>, <<2, r.s2>>} : s # Null}
\* the seat numbers a Booking row references
SeatsOf(r) == {x[2] : x \in SlotsOf(r)}
\* the live Bookings of event e
BookingsOfEvent(e) == {r \in bookings : r.event = e}
\* the live Bookings of event e that reference seat s
Referencing(e, s) == {r \in BookingsOfEvent(e) : s \in SeatsOf(r)}

(* ---- C1 ---- *)
\* C1: with book requests only, however they interleave, no seat of an
\* event is referenced by two live Bookings, nor by both slots of one.
NoDoubleBooking ==
  /\ \A e \in EventIds, s \in Seats : Cardinality(Referencing(e, s)) <= 1
  /\ \A r \in bookings : r.s1 # r.s2

\* C1 witness: a Booking committed while another book transaction of the same
\* event held its own selected seats, and both Bookings are live.
NoDoubleBookingWitness ==
  \E p, q \in Procs :
    /\ p # q /\ pc[p] = "done" /\ kind[p] = "book" /\ pc[q] = "b_commit"
    /\ ev[p] = ev[q]
    /\ \E r \in bookings : r.event = ev[p] /\ SeatsOf(r) = Range(sel[p])
    /\ Cardinality(BookingsOfEvent(ev[p])) >= 2

(* ---- C2 ---- *)
\* the populated seat slots of u's live Bookings for e: pairs <<booking id, slot>>
HeldSlots(e, u) ==
  UNION {{<<r.id, x[1]>> : x \in SlotsOf(r)} : r \in {y \in BookingsOfEvent(e) : y.user = u}}

\* C2: however book and cancel requests interleave (two overlapping book
\* requests of one user included), no user holds more than 2 seat slots over
\* the live Bookings of one event.
QuotaInvariant ==
  \A e \in EventIds, u \in Users : Cardinality(HeldSlots(e, u)) <= Quota

(* ---- C3 ---- *)
\* C3: in every committed state a seat is booked exactly if one live Booking
\* of its event references it, and unbooked exactly if none does.
SeatBookingConsistency ==
  \A e \in EventIds, s \in Seats :
    /\ s \in booked[e] <=> Cardinality(Referencing(e, s)) = 1
    /\ s \notin booked[e] <=> Cardinality(Referencing(e, s)) = 0

(* ---- C4 ---- *)
\* the populated seat slots of the live Bookings of e
EventSlots(e) == UNION {{<<r.id, x[1]>> : x \in SlotsOf(r)} : r \in BookingsOfEvent(e)}

\* C4: in every committed state the live Bookings of an event hold at most
\* total_tickets seat slots.
CapacityInvariant ==
  \A e \in EventIds : Cardinality(EventSlots(e)) <= TotalTickets

(* ---- C5 ---- *)
\* p's cancel request commits in this step (and then reports success)
CancelCommits(p) == kind[p] = "cancel" /\ pc[p] = "c_commit" /\ pc'[p] = "done"

\* C5: when a cancel of Booking b commits, every seat b referenced is
\* unbooked and b is gone, the other Booking rows are as before, and so is
\* the is_booked value of every seat b did not reference and of every seat
\* another live Booking references.
CancelReleasesOwnSeats ==
  [][\A p \in Procs : CancelCommits(p) =>
       LET b == cbook[p]
       IN /\ \A s \in SeatsOf(b) : s \notin booked'[b.event]
          /\ {r \in bookings' : r.id = b.id} = {}
          /\ {r \in bookings' : r.id # b.id} = {r \in bookings : r.id # b.id}
          /\ \A e \in EventIds, s \in Seats :
               (e # b.event \/ s \notin SeatsOf(b)) => (s \in booked'[e] <=> s \in booked[e])
          /\ \A r \in bookings : r.id # b.id =>
               \A s \in SeatsOf(r) : s \in booked'[r.event] <=> s \in booked[r.event]
    ]_vars

(* ---- C6 ---- *)
\* this step is a step of p's book request
BookMoves(p) ==
  /\ kind[p] = "book" \/ kind'[p] = "book"
  /\ <<pc[p], pending[p], urows[p], sLock[p], bLock[p]>> #
       <<pc'[p], pending'[p], urows'[p], sLock'[p], bLock'[p]>>

\* C6: a book request that fails (NotFound, QuotaExceeded or
\* InsufficientCapacity) changes no committed Seat or Booking row in any of
\* its steps, has no write pending when it fails, and holds no row lock once
\* its session is closed.
RollbackAtomicity ==
  [][\A p \in Procs :
       /\ (BookMoves(p) /\ pc'[p] # "done") => (booked' = booked /\ bookings' = bookings)
       /\ (kind'[p] = "book" /\ pc'[p] = "failed") => (wSeat'[p] = {} /\ wIns'[p] = {})
       /\ (kind[p] = "book" /\ pc[p] = "failed" /\ pc'[p] = "idle") =>
            (sLock'[p] = {} /\ bLock'[p] = {})
    ]_vars

\* C6 witness: a book request failed with InsufficientCapacity while holding
\* the lock of the single seat it could select.
RollbackAtomicityWitness ==
  \E p \in Procs :
    /\ kind[p] = "book" /\ pc[p] = "failed" /\ result[p] = "InsufficientCapacity"
    /\ cnt[p] = 2 /\ Cardinality(sLock[p]) = 1

(* ---- C7 ---- *)
\* C7: in sequential execution a book request on an existing event is
\* rejected with QuotaExceeded exactly if the seat slots of the user's live
\* Bookings for that event plus the requested count exceed 2, and the
\* rejection carries that held count.
QuotaGuardDecision ==
  \A p \in Procs : kind[p] = "book" =>
    LET h == Cardinality(HeldSlots(ev[p], usr[p]))
    IN /\ (pc[p] = "failed" /\ result[p] = "QuotaExceeded") =>
            (held[p] = h /\ h + cnt[p] > 2)
       /\ (pc[p] \in {"b_seats", "b_flush", "b_commit"}
             \/ (pc[p] = "failed" /\ result[p] = "InsufficientCapacity")) =>
            (held[p] = h /\ h + cnt[p] <= 2)

\* C7 witness: a request for 1 more seat rejected with held = 2 while the
\* same user also holds a Booking for another event.
QuotaGuardDecisionWitness ==
  \E p \in Procs :
    /\ kind[p] = "book" /\ pc[p] = "failed" /\ result[p] = "QuotaExceeded"
    /\ held[p] = 2 /\ cnt[p] = 1
    /\ \E r \in bookings : r.user = usr[p] /\ r.event # ev[p]

(* ---- C8 ---- *)
\* the seats of e that are unbooked and not locked by a transaction other than p's
FreeAndUnlocked(p, e) ==
  {s \in Seats : s \notin booked[e] /\ \A q \in Procs : q # p => <<e, s>> \notin sLock[q]}

\* C8: a book request that passes the seat selection takes exactly count
\* seats, the lowest-numbered of the seats then unbooked and not locked by
\* another transaction (the lowest unbooked ones when no other request is in
\* flight), in ascending order, and its Booking stores them in that order.
SeatSelectionOrder ==
  [][\A p \in Procs :
       /\ (pc[p] = "b_seats" /\ pc'[p] = "b_flush") =>
            LET free == FreeAndUnlocked(p, ev[p])
                chosen == {sel'[p][i] : i \in 1..Len(sel'[p])}
            IN /\ Len(sel'[p]) = cnt[p]
               /\ Cardinality(chosen) = cnt[p]
               /\ chosen \subseteq free
               /\ \A s \in chosen, t \in free \ chosen : s < t
               /\ \A i, j \in 1..Len(sel'[p]) : i < j => sel'[p][i] < sel'[p][j]
               /\ Quiet(p) => \A s \in chosen, t \in Seats \ chosen :
                                t \notin booked[ev[p]] => s < t
       /\ (kind[p] = "book" /\ pc[p] = "b_commit" /\ pc'[p] = "done") =>
            \E r \in bookings' \ bookings :
              /\ r.s1 = sel[p][1]
              /\ r.s2 = (IF cnt[p] = 2 THEN sel[p][2] ELSE Null)
              /\ r.s2 # Null => r.s1 < r.s2
    ]_vars

\* C8 witness: a request selected seats 2 and 3 while another transaction
\* held the lock of the unbooked seat 1.
SeatSelectionOrderWitness ==
  \E p, q \in Procs :
    /\ p # q /\ kind[p] = "book" /\ pc[p] = "b_flush" /\ sel[p] = <<2, 3>>
    /\ <<ev[p], 1>> \in sLock[q] /\ 1 \notin booked[ev[p]]

(* ---- C9 ---- *)
\* the unbooked seats of e
Unbooked(e) == {s \in Seats : s \notin booked[e]}

\* C9: in sequential execution a book request that passed the quota check
\* fails with InsufficientCapacity exactly if fewer than count seats of the
\* event are unbooked, and a seat is unbooked exactly if no live Booking
\* references it, so the seats of a cancelled Booking are allocated again.
ExhaustionAndReuse ==
  /\ \A p \in Procs : kind[p] = "book" =>
       /\ (pc[p] = "failed" /\ result[p] = "InsufficientCapacity") =>
            Cardinality(Unbooked(ev[p])) < cnt[p]
       /\ pc[p] \in {"b_flush", "b_commit"} =>
            (Cardinality(Unbooked(ev[p])) >= cnt[p] /\ Range(sel[p]) \subseteq Unbooked(ev[p]))
  /\ \A e \in EventIds, s \in Seats : s \in Unbooked(e) <=> Referencing(e, s) = {}

\* C9 witness: the end of the scenario: alice's Booking of seats 1 and 2 (the
\* first identifier) is cancelled, bob holds seat 3, and carol's request has
\* just been given seat 1.
ExhaustionAndReuseWitness ==
  \E p \in Procs :
    /\ kind[p] = "book" /\ pc[p] = "done" /\ usr[p] = "carol" /\ sel[p] = <<1>>
    /\ bookings = {[id |-> 2, event |-> 1, user |-> "bob", s1 |-> 3, s2 |-> Null],
                   [id |-> 3, event |-> 1, user |-> "carol", s1 |-> 1, s2 |-> Null]}
    /\ booked[1] = {1, 3}

(* ---- C10 ---- *)
\* p's seat selection fails in this step
SelectionFails(p) == pc[p] = "b_seats" /\ pc'[p] = "failed"

\* C10 as claimed: a seat selection fails only if fewer than count seats of
\* the event are unbooked in the committed state.
FailsOnlyOnShortage ==
  [][\A p \in Procs : SelectionFails(p) => Cardinality(Unbooked(ev[p])) < cnt[p]]_vars

\* C10 amended: a seat selection fails exactly if fewer than count seats of
\* the event are unbooked and not locked by another transaction.
FailsOnlyOnUnlockedShortage ==
  [][\A p \in Procs :
       pc[p] = "b_seats" /\ pc'[p] \in {"failed", "b_flush"} =>
         (pc'[p] = "failed" <=> Cardinality(FreeAndUnlocked(p, ev[p])) < cnt[p])
    ]_vars

\* C10 witness: a request failed with InsufficientCapacity while enough
\* seats of its event are unbooked, another transaction holding their locks.
FailsOnlyOnUnlockedShortageWitness ==
  \E p, q \in Procs :
    /\ p # q /\ kind[p] = "book" /\ pc[p] = "failed"
    /\ result[p] = "InsufficientCapacity"
    /\ Cardinality(Unbooked(ev[p])) >= cnt[p]
    /\ \E s \in Unbooked(ev[p]) : <<ev[p], s>> \in sLock[q]

(* ---- C12 ---- *)
\* p's request starts in this step, as a cancel request
CancelStarts(p) == kind[p] = "none" /\ kind'[p] = "cancel"

\* this step is a step of p's cancel request
CancelMoves(p) ==
  /\ kind[p] = "cancel" \/ kind'[p] = "cancel"
  /\ <<pc[p], dirty[p], sLock[p], bLock[p]>> # <<pc'[p], dirty'[p], sLock'[p], bLock'[p]>>

\* C12: a cancel request whose booking id names no Booking row (never
\* created, or deleted by a committed cancel) fails with NotFound, and no
\* step of it changes a Seat row or a Booking row, locks a row or writes one.
CancelUnknownNotFound ==
  [][\A p \in Procs :
       /\ CancelStarts(p) =>
            ((\A r \in bookings : r.id # bid'[p]) <=>
               (pc'[p] = "failed" /\ result'[p] = "NotFound"))
       /\ (kind'[p] = "cancel" /\ pc'[p] = "failed") =>
            /\ result'[p] = "NotFound"
            /\ sLock'[p] = {} /\ bLock'[p] = {} /\ wSeat'[p] = {} /\ wDel'[p] = {}
       /\ (CancelMoves(p) /\ (pc[p] = "failed" \/ pc'[p] = "failed")) =>
            (booked' = booked /\ bookings' = bookings)
    ]_vars

\* C12 witness: a cancel of a Booking that an earlier cancel deleted has
\* failed with NotFound, while other Bookings are live.
CancelUnknownNotFoundWitness ==
  \E p \in Procs :
    /\ kind[p] = "cancel" /\ pc[p] = "failed" /\ result[p] = "NotFound"
    /\ bid[p] <= nextId /\ (\A r \in bookings : r.id # bid[p])
    /\ bookings # {}

(* ---- C13 ---- *)
\* the statement p's book request is at can run now
BookCanStep(p) == ENABLED (BookRun(p) \/ Commit(p))

\* the transactions that hold the lock p's FOR UPDATE statement waits for
Blockers(p) == {q \in Procs \ {p} : pending[p] \cap bLock[q] # {}}

\* p's FOR UPDATE statement takes its snapshot in this step
BookScans(p) == kind[p] = "book" /\ pc[p] = "b_quota" /\ pc'[p] # "idle"

\* p's FOR UPDATE statement resumes in this step
BookResumes(p) == kind[p] = "book" /\ pc[p] = "b_lock" /\ pc'[p] # "idle"

\* C13: a book request cannot run only while its FOR UPDATE statement on the
\* Booking rows waits; at the seat selection and everywhere else its next
\* statement can always run. The rows it waits for are Booking rows of its
\* own (event, user), and the transaction holding one is a cancel of that
\* row or a book request of the same (event, user), never a book request of
\* another user.
CrossUserNonBlocking ==
  /\ [](\A p \in Procs : kind[p] = "book" =>
          /\ (pc[p] \in InFlight \ {"b_lock"}) => BookCanStep(p)
          /\ \A q \in Blockers(p) :
               \/ kind[q] = "cancel" /\ bid[q] \in pending[p]
               \/ kind[q] = "book" /\ ev[q] = ev[p] /\ usr[q] = usr[p])
  /\ [][\A p \in Procs :
          /\ BookScans(p) =>
               \A b \in pending'[p] \cup bLock'[p] : \E r \in bookings :
                  r.id = b /\ r.event = ev[p] /\ r.user = usr[p]
          /\ BookResumes(p) =>
               (pending'[p] \subseteq pending[p] /\ bLock'[p] \subseteq bLock[p] \cup pending[p])
       ]_vars

\* C13 witness: a book request has passed its seat selection with the seats
\* it asked for while a book request of another user, still in flight, holds
\* the lock of a lower unbooked seat of the same event, which it skipped.
CrossUserNonBlockingWitness ==
  \E p \in Procs, q \in Procs :
    /\ kind[p] = "book" /\ kind[q] = "book" /\ usr[p] # usr[q] /\ ev[p] = ev[q]
    /\ pc[p] = "b_flush" /\ pc[q] \in {"b_flush", "b_commit"}
    /\ Len(sel[p]) = cnt[p]
    /\ \E s \in Seats : <<ev[q], s>> \in sLock[q] /\ s \notin booked[ev[p]] /\ s < sel[p][1]

(* ---- C14 ---- *)
\* p's transaction ends in this step without having committed
EndsUncommitted(p) == pc[p] \in InFlight \cup {"failed"} /\ pc'[p] = "idle"

\* p's transaction commits in this step
Commits(p) == pc[p] \in {"b_commit", "c_commit"} /\ pc'[p] = "done"

\* what p's transaction has written and not committed, as <<seats, rows>>
Uncommitted(p) == <<{w[2] : w \in wSeat[p]}, wIns[p], wDel[p]>>

\* C14: a Seat or Booking row changes only in the step in which a transaction
\* commits, and then by all of that transaction's writes together: the seat
\* marks with the Booking insert, the seat releases with the Booking delete.
\* A transaction that ends without commit, at whatever step, changes no
\* committed row and leaves no lock and no pending write behind.
AbortAtomicity ==
  [][/\ (booked' # booked \/ bookings' # bookings) =>
          \/ nEvents' # nEvents
          \/ \E p \in Procs : Commits(p)
     /\ \A p \in Procs :
          /\ EndsUncommitted(p) =>
               /\ booked' = booked /\ bookings' = bookings
               /\ sLock'[p] = {} /\ bLock'[p] = {}
               /\ Uncommitted(p)' = <<{}, {}, {}>>
          /\ (Commits(p) /\ kind[p] = "book") =>
               /\ \E r \in bookings' \ bookings :
                    /\ bookings' = bookings \cup {r}
                    /\ SeatsOf(r) = Uncommitted(p)[1]
                    /\ booked' = [booked EXCEPT ![r.event] = @ \cup SeatsOf(r)]
          /\ (Commits(p) /\ kind[p] = "cancel") =>
               /\ bookings' = {r \in bookings : r.id \notin Uncommitted(p)[3]}
               /\ booked' = [booked EXCEPT ![cbook[p].event] = @ \ Uncommitted(p)[1]]
    ]_vars

\* C14 witness: a book transaction has flushed its seat marks and its Booking
\* and a cancel transaction has flushed a seat release but not yet its
\* DELETE; none of these writes is in the committed state, and either
\* transaction can still be aborted.
AbortAtomicityWitness ==
  \E p \in Procs, q \in Procs :
    /\ kind[p] = "book" /\ pc[p] = "b_commit"
    /\ wIns[p] # {} /\ wSeat[p] # {}
    /\ \A w \in wSeat[p] : w[2] \notin booked[w[1]]
    /\ wIns[p] \cap bookings = {}
    /\ kind[q] = "cancel" /\ pc[q] \in {"c_seat2", "c_delete"}
    /\ wSeat[q] # {} /\ wDel[q] = {}
    /\ \A w \in wSeat[q] : w[2] \in booked[w[1]]
    /\ ENABLED Abort(p) /\ ENABLED Abort(q)

(* ---- C15 ---- *)
\* p's request starts in this step, as a book request
BookStarts(p) == kind[p] = "none" /\ kind'[p] = "book"

\* p's book request has failed with the given error
BookFailed(p, err) == kind[p] = "book" /\ pc[p] = "failed" /\ result[p] = err

\* C15: a book request for an event that does not exist fails with NotFound
\* at its start, whatever the user and the count, and no other book request
\* fails so; a request that counts held + count > 2 fails with QuotaExceeded,
\* however few seats are free, the user's live Bookings then do exceed the
\* quota with it, and it has selected and locked no seat; only a
\* request within the quota reaches the seat selection and can fail with
\* InsufficientCapacity.
FailurePrecedence ==
  /\ [][\A p \in Procs : BookStarts(p) =>
          /\ (ev'[p] \notin 1..nEvents) <=> (pc'[p] = "failed" /\ result'[p] = "NotFound")
          /\ (ev'[p] \in 1..nEvents) => pc'[p] = "b_quota"
       ]_vars
  /\ [](\A p \in Procs :
          /\ BookFailed(p, "NotFound") =>
               (sLock[p] = {} /\ bLock[p] = {} /\ sel[p] = <<>> /\ urows[p] = {})
          /\ BookFailed(p, "QuotaExceeded") =>
               /\ held[p] + cnt[p] > Quota
               /\ Cardinality(HeldSlots(ev[p], usr[p])) + cnt[p] > Quota
               /\ sLock[p] = {} /\ sel[p] = <<>>
          /\ (kind[p] = "book" /\ pc[p] \in {"b_quota", "b_lock"}) =>
               (sLock[p] = {} /\ sel[p] = <<>>)
          /\ (BookFailed(p, "InsufficientCapacity")
                \/ (kind[p] = "book" /\ pc[p] \in {"b_seats", "b_flush", "b_commit"})) =>
               (ev[p] \in 1..nEvents /\ held[p] + cnt[p] <= Quota))

\* C15 witness: a user holding 2 seats of a sold-out event asks for more and
\* is rejected with QuotaExceeded.
FailurePrecedenceWitness ==
  \E p \in Procs :
    /\ BookFailed(p, "QuotaExceeded") /\ held[p] = 2
    /\ booked[ev[p]] = Seats
    /\ Cardinality(SelectableSeats(p, ev[p])) < cnt[p]

(* ---- C16 ---- *)
\* the shape of a Booking row
WellShaped(r) ==
  /\ r.event \in 1..nEvents
  /\ r.s1 \in Seats
  /\ r.s2 \in Seats \cup {Null}
  /\ r.s2 # r.s1
  /\ Cardinality(SeatsOf(r)) \in 1..MaxTickets

\* C16: every live Booking has seat_id1 populated, seat_id2 populated or
\* null, the two different, and both seat numbers of its own event; the
\* Booking a book request commits has seat_id2 populated exactly if 2 tickets
\* were requested, and holds as many seats as were requested.
BookingShape ==
  /\ [](\A r \in bookings : WellShaped(r))
  /\ [][\A p \in Procs : (Commits(p) /\ kind[p] = "book") =>
          \A r \in bookings' \ bookings :
            /\ r.event = ev[p] /\ r.user = usr[p]
            /\ (r.s2 # Null) <=> (cnt[p] = 2)
            /\ Cardinality(SeatsOf(r)) = cnt[p]
       ]_vars

\* C16 witness: a request for 2 tickets has committed its Booking with both
\* slots populated, next to a live Booking of one seat.
BookingShapeWitness ==
  \E p \in Procs :
    /\ kind[p] = "book" /\ pc[p] = "done" /\ cnt[p] = 2
    /\ \E r \in bookings :
         /\ r.event = ev[p] /\ r.user = usr[p]
         /\ <<r.s1, r.s2>> = <<sel[p][1], sel[p][2]>>
         /\ \E o \in bookings : o.id # r.id /\ o.s2 = Null

(* ---- C17 ---- *)
\* the Seat rows: one per seat number 1..total_tickets of every event created
SeatRows == (1..nEvents) \X Seats

\* the event p's transaction addresses
Addressed(p) == IF kind[p] = "book" THEN ev[p] ELSE cbook[p].event

\* C17: creating an event adds, in one step, the event and its Seat rows
\* 1..total_tickets, all unbooked, and no Booking, and touches nothing else;
\* no step of a book or cancel request, failed or not, creates an event or
\* adds or removes a Seat row: it changes is_booked only, in its commit, and
\* only for seats of the event it addresses.
SeatSetFixed ==
  [][/\ nEvents' # nEvents =>
          /\ nEvents' = nEvents + 1
          /\ SeatRows' = SeatRows \cup ({nEvents'} \X Seats)
          /\ booked'[nEvents'] = {}
          /\ \A r \in bookings' : r.event # nEvents'
          /\ bookings' = bookings
          /\ \A e \in 1..nEvents : booked'[e] = booked[e]
          /\ pc' = pc
     /\ \A p \in Procs : pc'[p] # pc[p] =>
          /\ SeatRows' = SeatRows
          /\ \A e \in EventIds :
               /\ booked'[e] \subseteq {x[2] : x \in {y \in SeatRows : y[1] = e}}
               /\ booked'[e] # booked[e] => (Commits(p) /\ e = Addressed(p))
    ]_vars

\* C17 witness: with two events, a cancel on the second event has committed
\* while seats of the first event are booked.
SeatSetFixedWitness ==
  \E p \in Procs :
    /\ nEvents = 2 /\ kind[p] = "cancel" /\ pc[p] = "done"
    /\ cbook[p].event = 2 /\ booked[1] # {}
    /\ SeatRows = {1, 2} \X Seats

(* ---- C18 ---- *)
\* C18: a cancel request that returns success has deleted its Booking in the
\* step that commits it, and releases seats only with that deletion; a
\* request whose Booking another cancel has deleted meanwhile does neither.
SingleSuccessfulCancel ==
  [][\A p \in Procs : (Commits(p) /\ kind[p] = "cancel") =>
       /\ cbook[p] \in bookings
       /\ cbook[p] \notin bookings'
    ]_vars

(* ---- C19 ---- *)
\* the committed state t is the committed state s plus the Booking r and its
\* seats, which s does not have: s is then the only such state for t and r
AddsBooking(s, t, r) ==
  /\ r \notin s[2] /\ t[2] = s[2] \cup {r}
  /\ SeatsOf(r) \cap s[1][r.event] = {}
  /\ t[1] = [s[1] EXCEPT ![r.event] = @ \cup SeatsOf(r)]

\* the committed rows: is_booked of every seat, and the Bookings
Committed == <<booked, bookings>>

\* C19: in sequential execution the commit of a book request takes the
\* committed state to that state plus its new Booking and the Booking's
\* seats, none of which were there; the commit of a cancel request takes the
\* committed state back across exactly that difference for the Booking it
\* cancels. So a book followed at once by the cancel of its Booking ends in
\* the state it began in: same Bookings, same is_booked for every seat.
BookCancelRoundTrip ==
  [][\A p \in Procs : Commits(p) =>
       /\ nEvents' = nEvents
       /\ kind[p] = "book" =>
            \E r \in bookings' :
              /\ r.id = nextId /\ r.event = ev[p] /\ r.user = usr[p]
              /\ Cardinality(SeatsOf(r)) = cnt[p]
              /\ AddsBooking(Committed, Committed', r)
       /\ kind[p] = "cancel" =>
            /\ cbook[p].id = bid[p]
            /\ AddsBooking(Committed', Committed, cbook[p])
    ]_vars

\* C19 witness: the cancel of the Booking created last has committed, while
\* other Bookings are live; its seats are free again.
BookCancelRoundTripWitness ==
  \E p \in Procs :
    /\ kind[p] = "cancel" /\ pc[p] = "done" /\ bid[p] = nextId
    /\ cbook[p].s2 # Null
    /\ SeatsOf(cbook[p]) \cap booked[cbook[p].event] = {}
    /\ bookings # {} /\ cbook[p] \notin bookings

(* ---- C11 ---- *)
\* the transactions that hold a row lock p's next statement needs
WaitsFor(p) ==
  {q \in Procs \ {p} :
     \/ pc[p] = "b_lock" /\ Min(pending[p]) \in bLock[q]
     \/ pc[p] \in {"c_flush1", "c_flush2"}
          /\ \E s \in dirty[p] : <<cbook[p].event, s>> \in sLock[q]
     \/ pc[p] = "c_delete" /\ bid[p] \in bLock[q]}

\* a set of transactions each waiting for a lock of another of the set
WaitCycle(W) == W # {} /\ \A p \in W : WaitsFor(p) \cap W # {}

\* some request starts in this step
Starts == \E p \in Procs : pc[p] = "idle" /\ pc'[p] # "idle"

\* C11: no set of transactions wait on each other's row locks; a transaction
\* in flight either can run its next statement or waits for a lock that a
\* transaction still open holds; and with every handler scheduled fairly,
\* once requests stop arriving (the set of transactions is finite) every
\* transaction in flight comes to its end: commit, failure or abort.
DeadlockFreedom ==
  /\ [](\A W \in SUBSET Procs : ~WaitCycle(W))
  /\ [](\A p \in Procs :
          /\ pc[p] \in InFlight => (ENABLED Run(p) <=> WaitsFor(p) = {})
          /\ pc[p] = "idle" => (sLock[p] = {} /\ bLock[p] = {})
          /\ pc[p] \in {"failed", "done"} => ENABLED Run(p))
  /\ (<>[][~Starts]_vars) => \A p \in Procs : []<>(pc[p] \notin InFlight)

\* C11 witness: a book request waits for the lock of a Booking row held by a
\* cancel that has flushed its seat releases and its DELETE and holds their
\* locks; the cancel waits for nothing and can commit.
DeadlockFreedomWitness ==
  \E p \in Procs, q \in Procs :
    /\ kind[p] = "book" /\ pc[p] = "b_lock" /\ WaitsFor(p) = {q}
    /\ kind[q] = "cancel" /\ pc[q] = "c_commit" /\ sLock[q] # {}
    /\ ~ENABLED Run(p) /\ ENABLED Run(q)

====
